---- MODULE Spec2Model ----
(***************************************************************************)
(* The CBB betting pipeline (enhanced_betting_system_v6.py and _v7.py) as  *)
(* a state machine: OddsAPI.fetch builds the game list, predict turns each *)
(* game into a Pred, main sorts, filters, truncates and stakes.            *)
(*                                                                         *)
(* Numbers.  The code computes in binary floating point; the model         *)
(* computes the same expressions in exact fixed point:                     *)
(*   points        in units of 1/POINT of a point (margins, spreads),      *)
(*   stored points in tenths (round(x,1)),                                 *)
(*   probabilities in units of 1/10000 (round(x,4)),                       *)
(*   Kelly         in units of 1/1000000,                                  *)
(*   money         in units of 1/1000000 of a currency unit before the     *)
(*                 rounding to 5, whole currency units after it.           *)
(* round() is Python's round-half-to-even.                                 *)
(***************************************************************************)
EXTENDS Integers, Sequences, FiniteSets, TLC

VARIABLES
    ver,        \* which pipeline runs: 6 (v6.py) or 7 (v7.py)
    BANKROLL,   \* global BANKROLL after main's argparse
    world,      \* which optional provider modules imported, and how they answer
    response,   \* the odds API's JSON answer: a sequence of raw games
    games,      \* OddsAPI.games
    preds,      \* main's preds
    bets,       \* main's bets
    total,      \* main's running total of stakes
    placed,     \* the amounts staked so far, in order (v6: amt, v7: b.stake)
    i,          \* position of the running loop (1-based index of the next item)
    pc,         \* position in main
    probe       \* the Kelly expression evaluated on two cover probabilities

vars == <<ver, BANKROLL, world, response, games, preds, bets, total, placed, i, pc, probe>>

(***************************************************************************)
(* Bounds of the model                                                     *)
(***************************************************************************)
\* number of raw games the odds API may answer with
MaxFeed == 10

(***************************************************************************)
(* Module constants                                                        *)
(***************************************************************************)
\* units per point: h_margin = (oh*da - oa*dh)*th*ta / (100*100*67.5) + hca
POINT == (100 * 100 * 135) \div 2
TENTH == POINT \div 10
HUNDREDTH == POINT \div 100

\* SPREAD_STD = 11.0, in points
SPREAD_STD == 11
\* KELLY_FRAC = 0.15, in thousandths
KELLY_FRAC == 150
\* MIN_EDGE = 2.0, in tenths of a point
MIN_EDGE == 20
\* MIN_COVER = 0.52, in 1/10000
MIN_COVER == 5200
MAX_BETS == 5
\* MIN_HOURS_UNTIL_GAME = 1.5, in tenths of an hour
MIN_HOURS_UNTIL_GAME == 15
\* the payout ratio 0.909, in thousandths
PAYOUT == 909
\* the per-bet cap 0.03 and the aggregate cap 0.10, in thousandths
PER_BET_CAP == 30
AGGREGATE_CAP == 100
\* the rounding unit of a stake and the least stake that is placed
STAKE_UNIT == 5
MIN_STAKE == 20
\* money before rounding is kept in millionths
MICRO == 1000 * 1000
\* CONFERENCE_HCA.get(conf, 3.5): the fallback, in tenths
HCA_DEFAULT == 35

(***************************************************************************)
(* Arithmetic helpers                                                      *)
(***************************************************************************)
Abs(x) == IF x < 0 THEN -x ELSE x

Min2(a, b) == IF a <= b THEN a ELSE b

Max2(a, b) == IF a >= b THEN a ELSE b

\* Python round(n/d) for d > 0: nearest integer, ties to the even one
RoundHalfEven(n, d) ==
    LET q == n \div d
        r == n - q * d
    IN  IF 2 * r < d THEN q
        ELSE IF 2 * r > d THEN q + 1
        ELSE IF q % 2 = 0 THEN q ELSE q + 1

\* round(x, 1) of a value in model units, in tenths of a point
Round1(x) == RoundHalfEven(x, TENTH)

(***************************************************************************)
(* Team names are sequences of characters, so that lower() and strip()     *)
(* are computed.                                                           *)
(***************************************************************************)
UPPER == <<"A","B","C","D","E","F","G","H","I","J","K","L","M",
           "N","O","P","Q","R","S","T","U","V","W","X","Y","Z">>
LOWER == <<"a","b","c","d","e","f","g","h","i","j","k","l","m",
           "n","o","p","q","r","s","t","u","v","w","x","y","z">>

LowerChar(c) ==
    IF \E k \in 1..Len(UPPER) : UPPER[k] = c
    THEN LOWER[CHOOSE k \in 1..Len(UPPER) : UPPER[k] = c]
    ELSE c

\* str.lower()
Lower(s) == [k \in 1..Len(s) |-> LowerChar(s[k])]

RECURSIVE LStrip(_)
LStrip(s) == IF s # <<>> /\ Head(s) = " " THEN LStrip(Tail(s)) ELSE s

RECURSIVE RStrip(_)
RStrip(s) == IF s # <<>> /\ s[Len(s)] = " " THEN RStrip(SubSeq(s, 1, Len(s) - 1)) ELSE s

\* str.strip()
Strip(s) == RStrip(LStrip(s))

Duke == <<"D","u","k","e">>
Utah == <<"U","t","a","h">>
Iona == <<"I","o","n","a">>
Rice == <<"R","i","c","e">>
Yale == <<"Y","a","l","e">>
Navy == <<"N","a","v","y">>
Troy == <<"T","r","o","y">>

(***************************************************************************)
(* TeamLoader: the rating store                                            *)
(***************************************************************************)
\* the rows of barttorvik_2026.csv the model loads (adjoe, adjde, adjt whole)
CSV_ROWS == <<
    [team |-> Duke, rank |-> 1,   conf |-> "ACC",  adjoe |-> 120, adjde |-> 92,  adjt |-> 68],
    [team |-> Utah, rank |-> 30,  conf |-> "B12",  adjoe |-> 112, adjde |-> 98,  adjt |-> 69],
    [team |-> Iona, rank |-> 150, conf |-> "MAAC", adjoe |-> 105, adjde |-> 103, adjt |-> 75],
    [team |-> Rice, rank |-> 110, conf |-> "AAC",  adjoe |-> 108, adjde |-> 100, adjt |-> 67],
    [team |-> Yale, rank |-> 80,  conf |-> "Ivy",  adjoe |-> 110, adjde |-> 101, adjt |-> 72],
    [team |-> Navy, rank |-> 200, conf |-> "Pat",  adjoe |-> 102, adjde |-> 104, adjt |-> 65] >>

\* the value get() gives for a name that is not a key
None == [found |-> FALSE]

\* TeamLoader.load: teams[n.lower()] = {...}; a later row replaces an earlier one
TeamsKeys == { Lower(CSV_ROWS[k].team) : k \in 1..Len(CSV_ROWS) }

TeamsAt(key) ==
    LET k == CHOOSE k \in 1..Len(CSV_ROWS) :
                 /\ Lower(CSV_ROWS[k].team) = key
                 /\ \A m \in (k+1)..Len(CSV_ROWS) : Lower(CSV_ROWS[m].team) # key
        r == CSV_ROWS[k]
    IN  [found |-> TRUE, team |-> r.team, rank |-> r.rank, conf |-> r.conf,
         adj_o |-> r.adjoe, adj_d |-> r.adjde, adj_t |-> r.adjt]

\* TeamLoader.get: self.teams.get(name.lower().strip())
Get(name) ==
    LET key == Strip(Lower(name))
    IN  IF key \in TeamsKeys THEN TeamsAt(key) ELSE None

\* CONFERENCE_HCA.get(conf, 3.5), in tenths of a point
HcaOf(conf) ==
    CASE conf \in {"B12", "B10", "SEC"} -> 40
      [] conf \in {"ACC", "BE", "MWC"}  -> 38
      [] conf \in {"WCC", "A10"}        -> 35
      [] OTHER                          -> HCA_DEFAULT

\* ELITE_VENUES, in tenths of a point
ELITE_VENUES == <<
    [team |-> Duke, bonus |-> 12],
    [team |-> <<"K","a","n","s","a","s">>, bonus |-> 12],
    [team |-> <<"K","e","n","t","u","c","k","y">>, bonus |-> 10],
    [team |-> <<"G","o","n","z","a","g","a">>, bonus |-> 10],
    [team |-> <<"P","u","r","d","u","e">>, bonus |-> 10],
    [team |-> <<"A","u","b","u","r","n">>, bonus |-> 10] >>

\* team in ELITE_VENUES
InEliteVenues(team) == \E k \in 1..Len(ELITE_VENUES) : ELITE_VENUES[k].team = team

\* ELITE_VENUES[team]
EliteBonus(team) ==
    ELITE_VENUES[CHOOSE k \in 1..Len(ELITE_VENUES) : ELITE_VENUES[k].team = team].bonus

(***************************************************************************)
(* OddsAPI.fetch                                                           *)
(***************************************************************************)
RECURSIVE InsertSorted(_, _)
InsertSorted(x, s) ==
    IF s = <<>> THEN <<x>>
    ELSE IF x <= Head(s) THEN <<x>> \o s
    ELSE <<Head(s)>> \o InsertSorted(x, Tail(s))

RECURSIVE SortInts(_)
SortInts(s) == IF s = <<>> THEN <<>> ELSE InsertSorted(Head(s), SortInts(Tail(s)))

\* round(np.median(spreads), 1) of a non-empty list of tenths, in tenths
MedianRound1(spreads) ==
    LET t == SortInts(spreads)
        n == Len(t)
    IN  IF n % 2 = 1 THEN t[(n + 1) \div 2]
        ELSE RoundHalfEven(t[n \div 2] + t[n \div 2 + 1], 2)

\* the raw games the model's odds API can answer with; points are the home
\* outcome's point of each bookmaker, in tenths; hours_until in tenths of an hour
FEED == <<
    [home_team |-> Duke, away_team |-> Utah, commence |-> TRUE, hours_until |-> 60,
     hour_et |-> 19, points |-> <<-105, -105, -100>>],
    [home_team |-> <<"U","T","A","H">>, away_team |-> Yale, commence |-> TRUE,
     hours_until |-> 45, hour_et |-> 21, points |-> <<-79>>],
    [home_team |-> Rice, away_team |-> Navy, commence |-> TRUE, hours_until |-> 30,
     hour_et |-> 22, points |-> <<-150, -140>>],
    [home_team |-> Yale, away_team |-> Iona, commence |-> FALSE, hours_until |-> 0,
     hour_et |-> 19, points |-> <<-60, -55, -65>>],
    [home_team |-> Iona, away_team |-> Yale, commence |-> TRUE, hours_until |-> 15,
     hour_et |-> 12, points |-> <<23>>],
    [home_team |-> Navy, away_team |-> Rice, commence |-> TRUE, hours_until |-> 80,
     hour_et |-> 14, points |-> <<65, 60, 70, 65>>],
    [home_team |-> <<" ","d","u","k","e"," ">>, away_team |-> Iona, commence |-> TRUE,
     hours_until |-> 50, hour_et |-> 20, points |-> <<-210, -206>>],
    [home_team |-> Troy, away_team |-> Duke, commence |-> TRUE, hours_until |-> 50,
     hour_et |-> 20, points |-> <<120>>],
    [home_team |-> Yale, away_team |-> Rice, commence |-> TRUE, hours_until |-> 14,
     hour_et |-> 19, points |-> <<-55>>],
    [home_team |-> Rice, away_team |-> Yale, commence |-> TRUE, hours_until |-> 40,
     hour_et |-> 19, points |-> <<-30, 25>>] >>

\* the k-th raw game of the feed; past its end the feed repeats
FeedGame(k) == FEED[((k - 1) % Len(FEED)) + 1]

\* spreads and max(spreads)-min(spreads) <= 5
SpreadsAgree(points) ==
    points # <<>> /\ (LET t == SortInts(points) IN t[Len(t)] - t[1] <= 50)

\* one turn of fetch's loop: the games list after raw game g.  v7 skips a game
\* that starts in less than MIN_HOURS_UNTIL_GAME and keeps the tip-off hour
\* (19 when there is no commence_time); v6 does neither
FetchOne(v, gs, g) ==
    IF v = 7
    THEN IF g.commence /\ g.hours_until < MIN_HOURS_UNTIL_GAME THEN gs
         ELSE IF SpreadsAgree(g.points)
              THEN Append(gs, [home |-> g.home_team, away |-> g.away_team,
                               spread |-> MedianRound1(g.points),
                               game_hour_et |-> IF g.commence THEN g.hour_et ELSE 19])
              ELSE gs
    ELSE IF SpreadsAgree(g.points)
         THEN Append(gs, [home |-> g.home_team, away |-> g.away_team,
                          spread |-> MedianRound1(g.points)])
         ELSE gs

RECURSIVE FetchAll(_, _, _)
FetchAll(v, gs, resp) ==
    IF resp = <<>> THEN gs ELSE FetchAll(v, FetchOne(v, gs, Head(resp)), Tail(resp))

(***************************************************************************)
(* The optional provider modules.  They are imported from files outside    *)
(* this program; `world' says which of them imported and fixes what they   *)
(* answer: "none" (no provider), "full" (all five, all answering),         *)
(* "faulty" (all five; the rest tracker raises for one away team).         *)
(* Deltas and impacts are in tenths of a point.                            *)
(***************************************************************************)
WORLDS == {"none", "full", "faulty"}

\* self.enhanced_inj is set (v7 line 163-164, v6 line 103-104)
HasEnhancedInj(w) == w # "none"

\* self.rest is set
HasRest(w) == w # "none"

\* self.matchups is set (HAS_MATCHUP)
HasMatchups(w) == w # "none"

\* HAS_TRAVEL
HasTravel(w) == w # "none"

\* self.line_tracker is set
HasLineTracker(w) == w # "none"

\* enhanced_inj.get_injury_impact(team) -> (impact, players)
GetInjuryImpact(w, team) ==
    CASE team = Duke -> [raised |-> FALSE, impact |-> 30, players |-> <<"P1", "P2", "P3">>]
      [] team = Navy -> [raised |-> FALSE, impact |-> 15, players |-> <<"P4">>]
      [] team = Rice -> [raised |-> FALSE, impact |-> 8,  players |-> <<"P5">>]
      [] OTHER       -> [raised |-> FALSE, impact |-> 0,  players |-> <<>>]

\* rest.get_rest_adjustment(home, away) -> (radj, reason)
GetRestAdjustment(w, home, away) ==
    CASE w = "faulty" /\ away = Navy -> [raised |-> TRUE, radj |-> 0, reason |-> ""]
      [] home = Utah -> [raised |-> FALSE, radj |-> 14, reason |-> "Utah rested"]
      [] home = Yale -> [raised |-> FALSE, radj |-> 2,  reason |-> "Yale slight rest"]
      [] home = Iona -> [raised |-> FALSE, radj |-> -5, reason |-> ""]
      [] OTHER       -> [raised |-> FALSE, radj |-> 0,  reason |-> ""]

\* matchups.get_all_adjustments(home, away) -> (madj, mfactors)
GetAllAdjustments(w, home, away) ==
    CASE home = Rice -> [raised |-> FALSE, madj |-> -8,
                         mfactors |-> <<"Pace mismatch", "Rebounding edge">>]
      [] home = Navy -> [raised |-> FALSE, madj |-> 3, mfactors |-> <<"Style">>]
      [] home = Iona -> [raised |-> FALSE, madj |-> -30, mfactors |-> <<"Size mismatch">>]
      [] OTHER       -> [raised |-> FALSE, madj |-> 0, mfactors |-> <<>>]

\* get_travel_adjustment(home, away, game_hour_et) -> (tadj, treason)
GetTravelAdjustment(w, home, away, game_hour_et) ==
    CASE away = Yale /\ game_hour_et >= 21 ->
             [raised |-> FALSE, tadj |-> 6, treason |-> "Late tip after travel"]
      [] OTHER -> [raised |-> FALSE, tadj |-> 0, treason |-> ""]

\* line_tracker.get_line_movement(f"{away_name} @ {home_name}") -> dict or None;
\* has_key says whether the dict holds 'movement'
GetLineMovement(w, away_name, home_name) ==
    CASE away_name = Utah /\ home_name = Duke ->
             [raised |-> FALSE, dict |-> TRUE, has_key |-> TRUE, movement |-> -15]
      [] away_name = Iona /\ home_name = Yale ->
             [raised |-> FALSE, dict |-> TRUE, has_key |-> TRUE, movement |-> 20]
      [] away_name = Rice /\ home_name = Navy ->
             [raised |-> FALSE, dict |-> TRUE, has_key |-> TRUE, movement |-> 10]
      [] away_name = Navy /\ home_name = Rice ->
             [raised |-> FALSE, dict |-> TRUE, has_key |-> FALSE, movement |-> 0]
      [] OTHER ->
             [raised |-> FALSE, dict |-> FALSE, has_key |-> FALSE, movement |-> 0]

(***************************************************************************)
(* scipy.stats.norm.cdf                                                    *)
(***************************************************************************)
\* the standard normal distribution function at k/22, k = 0, 1, ..., in 1/10000
PHI == <<
    5000, 5181, 5362, 5542, 5721, 5899, 6075, 6248, 6419, 6588, 6753,
    6915, 7073, 7227, 7377, 7523, 7665, 7802, 7934, 8061, 8183, 8301,
    8413, 8521, 8623, 8721, 8814, 8901, 8984, 9063, 9137, 9206, 9271,
    9332, 9389, 9442, 9491, 9537, 9579, 9619, 9655, 9688, 9719, 9747,
    9772, 9796, 9817, 9837, 9854, 9870, 9885, 9898, 9910, 9920, 9929,
    9938, 9945, 9952, 9958, 9963, 9968, 9972, 9976, 9979, 9982, 9984,
    9987 >>

\* stats.norm.cdf(x, loc, scale) in 1/10000, x and loc in model units, scale in
\* points: PHI interpolated linearly, and 1 - PHI(-z) below the mean
NormCdf(x, loc, scale) ==
    LET zNum == Abs(x - loc) * 22
        zDen == scale * POINT
        k    == zNum \div zDen
        frac == zNum % zDen
        up   == IF k + 1 >= Len(PHI) THEN PHI[Len(PHI)]
                ELSE PHI[k + 1] + RoundHalfEven((PHI[k + 2] - PHI[k + 1]) * frac, zDen)
    IN  IF x >= loc THEN up ELSE 10000 - up

(***************************************************************************)
(* predict: the adjustment engine                                          *)
(***************************************************************************)
\* one factor string, kept as its parts
Factor(kind, team, val, text) == [kind |-> kind, team |-> team, val |-> val, text |-> text]

\* hp[:2]: the "  └ {p}" lines of the first two players
PlayerFactors(players) ==
    [k \in 1..Min2(2, Len(players)) |-> Factor("player", <<>>, 0, players[k])]

\* (h_eff*pace)/100 + hca/2 with pace = adj_t*adj_t/67.5, h_eff = adj_o*adj_d/100
HPts(home, away) ==
    home.adj_o * away.adj_d * home.adj_t * away.adj_t + (HcaOf(home.conf) * TENTH) \div 2

\* mutant of APts: + hca/2 for - hca/2, so the home advantage cancels
APts_PlusHca(home, away) ==
    away.adj_o * home.adj_d * home.adj_t * away.adj_t + (HcaOf(home.conf) * TENTH) \div 2

\* (a_eff*pace)/100 - hca/2
APts(home, away) ==
    away.adj_o * home.adj_d * home.adj_t * away.adj_t - (HcaOf(home.conf) * TENTH) \div 2

\* h_margin = h_pts - a_pts, with factors = []
Baseline(home, away) ==
    [h_margin |-> HPts(home, away) - APts(home, away), factors |-> <<>>, raised |-> FALSE]

\* v7: if home['team'] in ELITE_VENUES: h_margin += ...; factors.append(...)
EliteVenueV7(acc, home) ==
    IF InEliteVenues(home.team)
    THEN [acc EXCEPT !.h_margin = @ + EliteBonus(home.team) * TENTH,
                     !.factors = Append(@, Factor("elite venue", <<>>, EliteBonus(home.team), ""))]
    ELSE acc

\* v6: the same bonus, and no factor
EliteVenueV6(acc, home) ==
    IF InEliteVenues(home.team)
    THEN [acc EXCEPT !.h_margin = @ + EliteBonus(home.team) * TENTH]
    ELSE acc

\* v7: if self.enhanced_inj: ...    adj = (ai-hi)*0.7 is (ai-hi)*7 hundredths
InjuryV7(acc, w, home, away) ==
    IF acc.raised \/ ~HasEnhancedInj(w) THEN acc
    ELSE LET h == GetInjuryImpact(w, home.team)
             a == GetInjuryImpact(w, away.team)
             adj == (a.impact - h.impact) * 7
             fh == IF h.impact > 10
                   THEN <<Factor("injuries", home.team, h.impact, "")>> \o PlayerFactors(h.players)
                   ELSE <<>>
             fa == IF a.impact > 10
                   THEN <<Factor("injuries", away.team, a.impact, "")>> \o PlayerFactors(a.players)
                   ELSE <<>>
         IN  IF h.raised \/ a.raised THEN [acc EXCEPT !.raised = TRUE]
             ELSE IF Abs(adj) > 50
                  THEN [acc EXCEPT !.h_margin = @ + adj * HUNDREDTH,
                                   !.factors = @ \o fh \o fa]
                  ELSE acc

\* v6: the players' lines are appended whether or not the team's line is
InjuryV6(acc, w, home, away) ==
    IF acc.raised \/ ~HasEnhancedInj(w) THEN acc
    ELSE LET h == GetInjuryImpact(w, home.team)
             a == GetInjuryImpact(w, away.team)
             adj == (a.impact - h.impact) * 7
             fh == (IF h.impact > 10 THEN <<Factor("injuries", home.team, h.impact, "")>> ELSE <<>>)
                   \o PlayerFactors(h.players)
             fa == (IF a.impact > 10 THEN <<Factor("injuries", away.team, a.impact, "")>> ELSE <<>>)
                   \o PlayerFactors(a.players)
         IN  IF h.raised \/ a.raised THEN [acc EXCEPT !.raised = TRUE]
             ELSE IF Abs(adj) > 50
                  THEN [acc EXCEPT !.h_margin = @ + adj * HUNDREDTH,
                                   !.factors = @ \o fh \o fa]
                  ELSE acc

\* mutant of RestAdj: the tracker is asked whether or not self.rest is set
RestAdj_Unguarded(acc, w, home, away) ==
    IF acc.raised THEN acc
    ELSE LET r == GetRestAdjustment(w, home.team, away.team)
         IN  IF r.raised THEN [acc EXCEPT !.raised = TRUE]
             ELSE IF Abs(r.radj) > 3
                  THEN [acc EXCEPT !.h_margin = @ + r.radj * TENTH,
                                   !.factors = IF r.reason # ""
                                               THEN Append(@, Factor("rest", <<>>, 0, r.reason))
                                               ELSE @]
                  ELSE acc

\* if self.rest: radj, reason = ...; if abs(radj) > 0.3: ...
RestAdj(acc, w, home, away) ==
    IF acc.raised \/ ~HasRest(w) THEN acc
    ELSE LET r == GetRestAdjustment(w, home.team, away.team)
         IN  IF r.raised THEN [acc EXCEPT !.raised = TRUE]
             ELSE IF Abs(r.radj) > 3
                  THEN [acc EXCEPT !.h_margin = @ + r.radj * TENTH,
                                   !.factors = IF r.reason # ""
                                               THEN Append(@, Factor("rest", <<>>, 0, r.reason))
                                               ELSE @]
                  ELSE acc

\* if self.matchups: madj, mfactors = ...; if abs(madj) > 0.3: ...
MatchupAdj(acc, w, home, away) ==
    IF acc.raised \/ ~HasMatchups(w) THEN acc
    ELSE LET r == GetAllAdjustments(w, home.team, away.team)
         IN  IF r.raised THEN [acc EXCEPT !.raised = TRUE]
             ELSE IF Abs(r.madj) > 3
                  THEN [acc EXCEPT !.h_margin = @ + r.madj * TENTH,
                                   !.factors = @ \o [k \in 1..Len(r.mfactors) |->
                                                       Factor("matchup", <<>>, 0, r.mfactors[k])]]
                  ELSE acc

\* if HAS_TRAVEL: tadj, treason = ...; if abs(tadj) > 0.3: ...
TravelAdj(acc, w, home, away, game_hour_et) ==
    IF acc.raised \/ ~HasTravel(w) THEN acc
    ELSE LET r == GetTravelAdjustment(w, home.team, away.team, game_hour_et)
         IN  IF r.raised THEN [acc EXCEPT !.raised = TRUE]
             ELSE IF Abs(r.tadj) > 3
                  THEN [acc EXCEPT !.h_margin = @ + r.tadj * TENTH,
                                   !.factors = IF r.treason # ""
                                               THEN Append(@, Factor("travel", <<>>, 0, r.treason))
                                               ELSE @]
                  ELSE acc

\* v7 lines 172-215: h_margin and factors before the edge is taken
AdjustV7(w, home, away, game_hour_et) ==
    TravelAdj(MatchupAdj(RestAdj(InjuryV7(EliteVenueV7(Baseline(home, away), home),
                                          w, home, away),
                                 w, home, away),
                         w, home, away),
              w, home, away, game_hour_et)

\* v6 lines 109-134
AdjustV6(w, home, away) ==
    RestAdj(InjuryV6(EliteVenueV6(Baseline(home, away), home), w, home, away), w, home, away)

(***************************************************************************)
(* predict: the edge engine                                                *)
(***************************************************************************)
\* mutant of BetHome: <= for <
BetHome_OrEqual(mdl, mkt_spread) == mdl <= mkt_spread * TENTH

\* if mdl < mkt_spread: the home side is bet (mdl in model units, mkt_spread in tenths)
BetHome(mdl, mkt_spread) == mdl < mkt_spread * TENTH

\* mutant of Cover: the two tails are swapped
Cover_TailsSwapped(bet_is_home, mdl, mkt_spread) ==
    IF bet_is_home THEN NormCdf(-mkt_spread * TENTH, -mdl, SPREAD_STD)
    ELSE 10000 - NormCdf(-mkt_spread * TENTH, -mdl, SPREAD_STD)

\* exp,mkt = -mdl,-mkt_spread
\* cover = 1-cdf(mkt,exp,SPREAD_STD) if bet_team==home['team'] else cdf(mkt,exp,SPREAD_STD)
Cover(bet_is_home, mdl, mkt_spread) ==
    LET exp == -mdl
        mkt == -mkt_spread * TENTH
    IN  IF bet_is_home THEN 10000 - NormCdf(mkt, exp, SPREAD_STD)
        ELSE NormCdf(mkt, exp, SPREAD_STD)

(***************************************************************************)
(* predict: the staking engine                                             *)
(***************************************************************************)
\* v7 lines 228-238: kelly_mult in hundredths, and the factor it adds
LineMovement(w, home_name, away_name, bet_is_home) ==
    IF ~HasLineTracker(w) THEN [raised |-> FALSE, kelly_mult |-> 100, factors |-> <<>>]
    ELSE LET mv == GetLineMovement(w, away_name, home_name)
             move == IF mv.has_key THEN mv.movement ELSE 0
         IN  IF mv.raised THEN [raised |-> TRUE, kelly_mult |-> 100, factors |-> <<>>]
             ELSE IF mv.dict /\ Abs(move) > 10
                  THEN IF (bet_is_home /\ move < -10) \/ (~bet_is_home /\ move > 10)
                       THEN [raised |-> FALSE, kelly_mult |-> 115,
                             factors |-> <<Factor("sharp money", <<>>, move, "")>>]
                       ELSE IF (bet_is_home /\ move > 10) \/ (~bet_is_home /\ move < -10)
                            THEN [raised |-> FALSE, kelly_mult |-> 85,
                                  factors |-> <<Factor("line against", <<>>, move, "")>>]
                            ELSE [raised |-> FALSE, kelly_mult |-> 100, factors |-> <<>>]
                  ELSE [raised |-> FALSE, kelly_mult |-> 100, factors |-> <<>>]

\* mutant of Kelly: the max(0, ...) is forgotten
Kelly_NoMax(cover, kelly_mult) ==
    IF cover > MIN_COVER
    THEN ((((PAYOUT * cover - 1000 * (10000 - cover)) * KELLY_FRAC) \div (PAYOUT * 10))
          * kelly_mult) \div 100
    ELSE 0

\* kelly = max(0,((0.909*cover)-(1-cover))/0.909*KELLY_FRAC)*kelly_mult if cover>MIN_COVER else 0
\* cover in 1/10000, kelly_mult in hundredths, the result in 1/1000000
Kelly(cover, kelly_mult) ==
    IF cover > MIN_COVER
    THEN (Max2(0, ((PAYOUT * cover - 1000 * (10000 - cover)) * KELLY_FRAC) \div (PAYOUT * 10))
          * kelly_mult) \div 100
    ELSE 0

\* round(kelly, 4), in 1/10000
Round4Kelly(kelly) == RoundHalfEven(kelly, 100)

\* v7: stake = min(bankroll*kelly, bankroll*0.03, bankroll*0.10); stake = round(stake/5)*5
StakeV7(bankroll, kelly) ==
    LET stake == Min2(bankroll * kelly,
                      Min2(bankroll * PER_BET_CAP * 1000, bankroll * AGGREGATE_CAP * 1000))
    IN  RoundHalfEven(stake, STAKE_UNIT * MICRO) * STAKE_UNIT

\* v6 main: amt = min(BANKROLL*b.kelly, BANKROLL*0.03, BANKROLL*0.1-total); amt = round(amt/5)*5
\* b.kelly is the stored, rounded Kelly in 1/10000
AmtV6(bankroll, kelly4, tot) ==
    LET amt == Min2(bankroll * kelly4 * 100,
                    Min2(bankroll * PER_BET_CAP * 1000,
                         bankroll * AGGREGATE_CAP * 1000 - tot * MICRO))
    IN  RoundHalfEven(amt, STAKE_UNIT * MICRO) * STAKE_UNIT

(***************************************************************************)
(* predict.  The result is a record whose `out' says what the call did:    *)
(* "pred" (a Pred is returned), "none" (None is returned) or "raise" (an   *)
(* exception leaves predict).  Beside the Pred's fields the record keeps   *)
(* three locals of predict the Pred does not store: h_margin (unrounded),  *)
(* kelly_mult and kelly_raw (kelly before round(kelly,4)).                 *)
(***************************************************************************)
ReturnNone == [out |-> "none"]

Raise == [out |-> "raise"]

PredictV7(w, home_name, away_name, mkt_spread, game_hour_et, bankroll) ==
    LET home == Get(home_name)
        away == Get(away_name)
    IN  IF ~home.found \/ ~away.found THEN ReturnNone
        ELSE
        LET acc == AdjustV7(w, home, away, game_hour_et)
        IN  IF acc.raised THEN Raise
            ELSE
            LET h_margin == acc.h_margin
                mdl == -h_margin
                winner == IF h_margin > 0 THEN home.team ELSE away.team
                margin_abs == Abs(h_margin)
                edge == Abs(mkt_spread * TENTH - mdl)
                bet_is_home == BetHome(mdl, mkt_spread)
                bet_team == IF bet_is_home THEN home.team ELSE away.team
                bet_line == IF bet_is_home THEN mkt_spread ELSE -mkt_spread
                cover == Cover(bet_team = home.team, mdl, mkt_spread)
                lm == LineMovement(w, home_name, away_name, bet_team = home.team)
            IN  IF lm.raised THEN Raise
                ELSE
                LET kelly == Kelly(cover, lm.kelly_mult)
                    stake == StakeV7(bankroll, kelly)
                IN  [out |-> "pred",
                     home |-> home.team, away |-> away.team,
                     home_rank |-> home.rank, away_rank |-> away.rank,
                     mkt |-> mkt_spread, mdl |-> Round1(mdl), edge |-> Round1(edge),
                     bet_team |-> bet_team, bet_line |-> bet_line,
                     cover |-> cover, kelly |-> Round4Kelly(kelly), stake |-> stake,
                     winner |-> winner, margin |-> Round1(margin_abs),
                     factors |-> acc.factors \o lm.factors,
                     h_margin |-> h_margin, kelly_mult |-> lm.kelly_mult, kelly_raw |-> kelly]

PredictV6(w, home_name, away_name, mkt_spread) ==
    LET home == Get(home_name)
        away == Get(away_name)
    IN  IF ~home.found \/ ~away.found THEN ReturnNone
        ELSE
        LET acc == AdjustV6(w, home, away)
        IN  IF acc.raised THEN Raise
            ELSE
            LET h_margin == acc.h_margin
                mdl == -h_margin
                winner == IF h_margin > 0 THEN home.team ELSE away.team
                margin_abs == Abs(h_margin)
                edge == Abs(mkt_spread * TENTH - mdl)
                bet_is_home == BetHome(mdl, mkt_spread)
                bet_team == IF bet_is_home THEN home.team ELSE away.team
                bet_line == IF bet_is_home THEN mkt_spread ELSE -mkt_spread
                cover == Cover(bet_team = home.team, mdl, mkt_spread)
                kelly == Kelly(cover, 100)
            IN  [out |-> "pred",
                 home |-> home.team, away |-> away.team,
                 mkt |-> mkt_spread, mdl |-> Round1(mdl), edge |-> Round1(edge),
                 bet_team |-> bet_team, bet_line |-> bet_line,
                 cover |-> cover, kelly |-> Round4Kelly(kelly),
                 winner |-> winner, margin |-> Round1(margin_abs),
                 factors |-> acc.factors,
                 h_margin |-> h_margin, kelly_mult |-> 100, kelly_raw |-> kelly]

(***************************************************************************)
(* main: the selector                                                      *)
(***************************************************************************)
\* preds = [x for x in preds if x]
DropNone(ps) == SelectSeq(ps, LAMBDA x : x.out = "pred")

RECURSIVE InsertByEdge_BeforeEqual(_, _)
\* mutant of InsertByEdge: x goes before the first element whose edge is not
\* greater, as sorting ascending and reversing would leave equal keys
InsertByEdge_BeforeEqual(x, s) ==
    IF s = <<>> THEN <<x>>
    ELSE IF Head(s).edge <= x.edge THEN <<x>> \o s
    ELSE <<Head(s)>> \o InsertByEdge_BeforeEqual(x, Tail(s))

\* list.sort is stable, and with reverse=True equal keys keep their order:
\* x goes before the first element whose edge is smaller
RECURSIVE InsertByEdge(_, _)
InsertByEdge(x, s) ==
    IF s = <<>> THEN <<x>>
    ELSE IF Head(s).edge < x.edge THEN <<x>> \o s
    ELSE <<Head(s)>> \o InsertByEdge(x, Tail(s))

RECURSIVE SortByEdge(_)
\* preds.sort(key=lambda x:x.edge,reverse=True)
SortByEdge(ps) ==
    IF ps = <<>> THEN <<>>
    ELSE InsertByEdge(ps[Len(ps)], SortByEdge(SubSeq(ps, 1, Len(ps) - 1)))

\* s[:n]
Take(s, n) == SubSeq(s, 1, Min2(n, Len(s)))

\* mutant of SelectBetsV7: the [:MAX_BETS] slice is forgotten
SelectBetsV7_NoSlice(ps) == SelectSeq(ps, LAMBDA x : x.edge >= MIN_EDGE /\ x.cover >= MIN_COVER /\ x.stake >= MIN_STAKE)

\* v7: bets=[x for x in preds if x.edge>=MIN_EDGE and x.cover>=MIN_COVER and x.stake>=20][:MAX_BETS]
QualifiesV7(x) == x.edge >= MIN_EDGE /\ x.cover >= MIN_COVER /\ x.stake >= MIN_STAKE

SelectBetsV7(ps) == Take(SelectSeq(ps, QualifiesV7), MAX_BETS)

\* v6: bets=[x for x in preds if x.edge>=MIN_EDGE and x.cover>=MIN_COVER][:MAX_BETS]
QualifiesV6(x) == x.edge >= MIN_EDGE /\ x.cover >= MIN_COVER

SelectBetsV6(ps) == Take(SelectSeq(ps, QualifiesV6), MAX_BETS)

(***************************************************************************)
(* The run of main                                                         *)
(***************************************************************************)
\* --bankroll values the model runs with
BANKROLLS == {1090, 10000}

RECURSIVE PickFeed(_, _)
\* the raw games with index in S, from the k-th on, in feed order
PickFeed(S, k) ==
    IF k > MaxFeed THEN <<>>
    ELSE (IF k \in S THEN <<FeedGame(k)>> ELSE <<>>) \o PickFeed(S, k + 1)

\* the answers of the odds API: any selection of the feed's first MaxFeed games
Responses == { PickFeed(S, 1) : S \in SUBSET (1..MaxFeed) }

ProbeIdle == [kelly_mult |-> 100, cover |-> 0, kelly |-> 0, prev_cover |-> 0, prev_kelly |-> 0]

Init ==
    /\ ver \in {6, 7}
    /\ BANKROLL \in BANKROLLS
    /\ world \in WORLDS
    /\ response \in Responses
    /\ games = <<>>
    /\ preds = <<>>
    /\ bets = <<>>
    /\ total = 0
    /\ placed = <<>>
    /\ i = 1
    /\ pc = "fetch"
    /\ probe = ProbeIdle

\* api.fetch(): status 200 fills api.games; any other status makes main return;
\* the answer r is a local of fetch and is gone when fetch returns
Fetch ==
    /\ pc = "fetch"
    /\ \E status \in {200, 500} :
          IF status # 200
          THEN /\ pc' = "done"
               /\ UNCHANGED games
          ELSE /\ games' = FetchAll(ver, <<>>, response)
               /\ pc' = "predict"
    /\ response' = <<>>
    /\ UNCHANGED <<ver, BANKROLL, world, preds, bets, total, placed, i, probe>>

\* one element of the list comprehension over api.games (v7 line 314, v6 line 186);
\* an exception leaving predict leaves main, and the list is never bound
Predict ==
    /\ pc = "predict"
    /\ i <= Len(games)
    /\ LET g == games[i]
           r == IF ver = 7
                THEN PredictV7(world, g.home, g.away, g.spread, g.game_hour_et, BANKROLL)
                ELSE PredictV6(world, g.home, g.away, g.spread)
       IN  IF r.out = "raise"
           THEN /\ pc' = "crashed"
                /\ preds' = <<>>
                /\ UNCHANGED i
           ELSE /\ preds' = Append(preds, r)
                /\ i' = i + 1
                /\ UNCHANGED pc
    /\ UNCHANGED <<ver, BANKROLL, world, response, games, bets, total, placed, probe>>

\* v7 lines 315-329, v6 lines 187-200: drop None, sort, select; no bets: return
Select ==
    /\ pc = "predict"
    /\ i > Len(games)
    /\ preds' = SortByEdge(DropNone(preds))
    /\ bets' = IF ver = 7 THEN SelectBetsV7(preds') ELSE SelectBetsV6(preds')
    /\ pc' = IF bets' = <<>> THEN "done" ELSE "stake"
    /\ i' = 1
    /\ UNCHANGED <<ver, BANKROLL, world, response, games, total, placed, probe>>

\* v7 lines 330-343: total += b.stake for each bet
TallyV7 ==
    /\ pc = "stake"
    /\ ver = 7
    /\ i <= Len(bets)
    /\ total' = total + bets[i].stake
    /\ placed' = Append(placed, bets[i].stake)
    /\ i' = i + 1
    /\ UNCHANGED <<ver, BANKROLL, world, response, games, preds, bets, pc, probe>>

\* v6 lines 201-217: size the bet against the running total; amt < 20: continue
StakeV6 ==
    /\ pc = "stake"
    /\ ver = 6
    /\ i <= Len(bets)
    /\ LET amt == AmtV6(BANKROLL, bets[i].kelly, total)
       IN  IF amt < MIN_STAKE
           THEN UNCHANGED <<total, placed>>
           ELSE /\ total' = total + amt
                /\ placed' = Append(placed, amt)
    /\ i' = i + 1
    /\ UNCHANGED <<ver, BANKROLL, world, response, games, preds, bets, pc, probe>>

\* the loop over bets is over: the summary is printed and main returns
Finish ==
    /\ pc = "stake"
    /\ i > Len(bets)
    /\ pc' = "done"
    /\ UNCHANGED <<ver, BANKROLL, world, response, games, preds, bets, total, placed, i, probe>>

Next == Fetch \/ Predict \/ Select \/ TallyV7 \/ StakeV6 \/ Finish

Spec == Init /\ [][Next]_vars

(***************************************************************************)
(* The Kelly expression of predict on its own: the probe holds its value   *)
(* on the cover probability asked last and on the one asked before it,     *)
(* under one confidence multiplier.                                        *)
(***************************************************************************)
\* half-width of the band of cover probabilities, in 1/10000, probed one by one
ProbeSpan == 30

\* the cover probabilities probed: every 1/10000 around MIN_COVER and the
\* break-even 1/1.909, and every 0.025 from 0.5 to 1
CoverGrid ==
    ((MIN_COVER - ProbeSpan)..(MIN_COVER + 2 * ProbeSpan)) \cup { 5000 + 250 * k : k \in 0..20 }

\* the values kelly_mult takes in predict, in hundredths
KellyMults == {85, 100, 115}

InitKelly ==
    /\ ver = 7
    /\ BANKROLL = 10000
    /\ world = "none"
    /\ response = <<>>
    /\ games = <<>>
    /\ preds = <<>>
    /\ bets = <<>>
    /\ total = 0
    /\ placed = <<>>
    /\ i = 1
    /\ pc = "probe"
    /\ \E m \in KellyMults, c \in CoverGrid :
          probe = [kelly_mult |-> m, cover |-> c, kelly |-> Kelly(c, m),
                   prev_cover |-> c, prev_kelly |-> Kelly(c, m)]

\* predict's line 240 on another cover probability, kelly_mult held fixed
ProbeKelly ==
    /\ pc = "probe"
    /\ \E c \in CoverGrid :
          probe' = [kelly_mult |-> probe.kelly_mult, cover |-> c,
                    kelly |-> Kelly(c, probe.kelly_mult),
                    prev_cover |-> probe.cover, prev_kelly |-> probe.kelly]
    /\ UNCHANGED <<ver, BANKROLL, world, response, games, preds, bets, total, placed, i, pc>>

NextKelly == ProbeKelly

SpecKelly == InitKelly /\ [][NextKelly]_vars

(***************************************************************************)
(* predict on a matchup and on the same matchup with home and away         *)
(* swapped and the market spread negated: games holds the two calls'       *)
(* arguments, preds the two results.                                       *)
(***************************************************************************)
\* the market spreads asked are the half points from -SwapSpan/2 to SwapSpan/2
SwapSpan == 12

\* the market spreads asked, in tenths
SwapSpreads == { 5 * k : k \in (-SwapSpan)..SwapSpan }

\* the names of the teams of the rating store
KnownTeams == { CSV_ROWS[k].team : k \in 1..Len(CSV_ROWS) }

\* the arguments of the two calls: a matchup, and the same matchup with home
\* and away swapped and the spread negated (game_hour_et is predict's default)
SwapGames ==
    { <<[home |-> a, away |-> b, spread |-> m, game_hour_et |-> 19],
        [home |-> b, away |-> a, spread |-> -m, game_hour_et |-> 19]>> :
      a \in KnownTeams, b \in KnownTeams, m \in SwapSpreads }

InitSwap ==
    /\ ver \in {6, 7}
    /\ BANKROLL = 10000
    /\ world \in WORLDS
    /\ response = <<>>
    /\ games \in { g \in SwapGames : g[1].home # g[1].away }
    /\ preds = <<>>
    /\ bets = <<>>
    /\ total = 0
    /\ placed = <<>>
    /\ i = 1
    /\ pc = "swap"
    /\ probe = ProbeIdle

\* one of the two calls of predict; an exception leaving it leaves no result
PredictSwapped ==
    /\ pc = "swap"
    /\ i <= Len(games)
    /\ LET g == games[i]
           r == IF ver = 7
                THEN PredictV7(world, g.home, g.away, g.spread, g.game_hour_et, BANKROLL)
                ELSE PredictV6(world, g.home, g.away, g.spread)
       IN  IF r.out = "raise"
           THEN /\ pc' = "crashed"
                /\ preds' = <<>>
                /\ UNCHANGED i
           ELSE /\ preds' = Append(preds, r)
                /\ i' = i + 1
                /\ UNCHANGED pc
    /\ UNCHANGED <<ver, BANKROLL, world, response, games, bets, total, placed, probe>>

NextSwap == PredictSwapped

SpecSwap == InitSwap /\ [][NextSwap]_vars

(***************************************************************************)
(* Helpers of the properties                                               *)
(***************************************************************************)
\* the predictions held in a list
Made(ps) == { k \in 1..Len(ps) : ps[k].out = "pred" }

RECURSIVE SumStakes(_)
SumStakes(bs) == IF bs = <<>> THEN 0 ELSE Head(bs).stake + SumStakes(Tail(bs))

\* main is past the selection (lines 315-317 of v7, 187-190 of v6)
Selected == pc \in {"stake", "done"} /\ games # <<>>

\* the games of a list whose two teams are both in the rating store
KnownGames(gs) == { k \in 1..Len(gs) : Get(gs[k].home).found /\ Get(gs[k].away).found }

\* 0.909*cover - (1-cover) > 0: the cover probability is above break-even
AboveBreakEven(cover) == PAYOUT * cover > 1000 * (10000 - cover)

(***************************************************************************)
(* The claims                                                              *)
(***************************************************************************)

\* C1 (as claimed): in the v7 pipeline the stakes of the final bet list sum to at
\* most 10% of the bankroll (bankroll * aggregateCap).
C1_AggregateCapV7 ==
    ver = 7 => SumStakes(bets) * 1000 <= BANKROLL * AGGREGATE_CAP

\* C2 (as claimed): in the v6 staking loop the running total of placed stakes is
\* at most bankroll * 0.10 after every iteration.
C2_RunningTotalV6 ==
    ver = 6 => total * 1000 <= BANKROLL * AGGREGATE_CAP

\* C3 (as claimed): every stake PredictorV7.predict gives is a non-negative
\* multiple of 5, the round-down of min(bankroll*kelly, bankroll*0.03,
\* bankroll*0.10), and so never above 3% of the bankroll.
C3_StakeRoundedDownV7 ==
    ver = 7 =>
      \A k \in Made(preds) :
         LET p == preds[k]
             uncut == Min2(BANKROLL * p.kelly_raw,
                           Min2(BANKROLL * PER_BET_CAP * 1000, BANKROLL * AGGREGATE_CAP * 1000))
         IN  /\ p.stake >= 0
             /\ p.stake % STAKE_UNIT = 0
             /\ p.stake = (uncut \div (STAKE_UNIT * MICRO)) * STAKE_UNIT
             /\ p.stake * 1000 <= BANKROLL * PER_BET_CAP

\* C4: the final bet list of v7 main has at most MAX_BETS entries, each with
\* edge >= MIN_EDGE, cover >= MIN_COVER and stake >= 20; when no prediction
\* satisfies these the list is empty and main returns normally.
C4_SelectorV7 ==
    ver = 7 =>
      /\ Len(bets) <= MAX_BETS
      /\ \A k \in 1..Len(bets) :
            /\ bets[k].edge >= MIN_EDGE
            /\ bets[k].cover >= MIN_COVER
            /\ bets[k].stake >= MIN_STAKE
      /\ (Selected /\ ~(\E k \in 1..Len(preds) : QualifiesV7(preds[k])))
            => (bets = <<>> /\ pc = "done")

\* C4 witness: six or more predictions qualify and five are kept, while a
\* prediction with enough edge and cover is left out for its stake below 20
C4_Witness ==
    /\ ver = 7
    /\ pc = "done"
    /\ Len(bets) = MAX_BETS
    /\ Cardinality({ k \in 1..Len(preds) : QualifiesV7(preds[k]) }) > MAX_BETS
    /\ \E k \in 1..Len(preds) :
          /\ preds[k].edge >= MIN_EDGE
          /\ preds[k].cover >= MIN_COVER
          /\ preds[k].stake < MIN_STAKE

\* C5 (as claimed): under one confidence multiplier the Kelly fraction is 0 for
\* every cover probability <= MIN_COVER, and strictly greater at the greater of
\* any two cover probabilities above MIN_COVER.
C5_KellyStrictAboveMinCover ==
    /\ probe.cover <= MIN_COVER => probe.kelly = 0
    /\ (MIN_COVER < probe.prev_cover /\ probe.prev_cover < probe.cover)
          => probe.prev_kelly < probe.kelly

\* C5 (amended): under one confidence multiplier, and for cover probabilities
\* given to four decimals, the Kelly fraction is 0 for every cover probability
\* up to the break-even 1/1.909 (which lies above MIN_COVER), never decreases
\* as the cover probability grows, and is strictly greater at the greater of
\* any two cover probabilities above break-even.
C5_KellyMonotone ==
    /\ probe.cover <= MIN_COVER => probe.kelly = 0
    /\ ~AboveBreakEven(probe.cover) => probe.kelly = 0
    /\ probe.prev_cover < probe.cover => probe.prev_kelly <= probe.kelly
    /\ (AboveBreakEven(probe.prev_cover) /\ probe.prev_cover < probe.cover)
          => probe.prev_kelly < probe.kelly

\* C5 witness: two cover probabilities above break-even, the Kelly fraction
\* positive at the smaller and greater at the greater
C5_Witness ==
    /\ pc = "probe"
    /\ AboveBreakEven(probe.prev_cover)
    /\ probe.prev_cover < probe.cover
    /\ 0 < probe.prev_kelly
    /\ probe.prev_kelly < probe.kelly

\* C6 (as claimed): between the fields stored in a Pred, the bet is the home team
\* at line mkt exactly when mdl < mkt, and otherwise the away team at line -mkt.
C6_SideFromStoredFields ==
    \A k \in Made(preds) :
       LET p == preds[k]
       IN  IF p.mdl < p.mkt
           THEN p.bet_team = p.home /\ p.bet_line = p.mkt
           ELSE p.bet_team = p.away /\ p.bet_line = -p.mkt

\* C6 (amended): the bet is the home team at line mkt exactly when the unrounded
\* model spread -h_margin of predict is strictly below the market spread, and
\* otherwise (equality included) the away team at line -mkt; of the stored mdl,
\* which is rounded to one decimal, only mdl <= mkt (home) and mdl >= mkt (away)
\* hold.
C6_SideFromModelSpread ==
    \A k \in Made(preds) :
       LET p == preds[k]
       IN  IF -p.h_margin < p.mkt * TENTH
           THEN p.bet_team = p.home /\ p.bet_line = p.mkt /\ p.mdl <= p.mkt
           ELSE p.bet_team = p.away /\ p.bet_line = -p.mkt /\ p.mdl >= p.mkt

\* C6 witness: one prediction bets home with the stored mdl equal to mkt, and
\* another has the model spread equal to the market spread and bets away
C6_Witness ==
    /\ \E k \in Made(preds) :
          /\ preds[k].bet_team = preds[k].home
          /\ preds[k].home # preds[k].away
          /\ preds[k].mdl = preds[k].mkt
    /\ \E k \in Made(preds) :
          /\ -preds[k].h_margin = preds[k].mkt * TENTH
          /\ preds[k].bet_team = preds[k].away
          /\ preds[k].bet_line = -preds[k].mkt

\* C7: the cover probability is the tail of the margin distribution (mean
\* h_margin = -mdl, deviation SPREAD_STD) at the threshold -mkt: the upper tail
\* when home is bet, the lower tail when away is bet; the threshold is never on
\* the wrong side of the mean and the cover probability is never below 0.5.
C7_CoverIsFavourableTail ==
    \A k \in Made(preds) :
       LET p == preds[k]
           threshold == -p.mkt * TENTH
           mean == p.h_margin
           below == NormCdf(threshold, mean, SPREAD_STD)
       IN  /\ p.bet_team = p.home => (threshold < mean /\ p.cover = 10000 - below)
           /\ p.bet_team # p.home => (threshold >= mean /\ p.cover = below)
           /\ p.cover >= 5000

\* C7 witness: a home bet and an away bet, both with cover above 0.5, and a bet
\* with the threshold on the mean and cover 0.5
C7_Witness ==
    /\ \E k \in Made(preds) : preds[k].bet_team = preds[k].home /\ preds[k].cover > 5000
    /\ \E k \in Made(preds) : preds[k].bet_team = preds[k].away /\ preds[k].cover > 5000
    /\ \E k \in Made(preds) : -preds[k].mkt * TENTH = preds[k].h_margin /\ preds[k].cover = 5000

\* C8 (as claimed): a provider failing inside predict does not leave predict: the
\* matchup's prediction is still produced, and so are all the others of the run.
C8_ProviderFailureIsolated ==
    /\ pc # "crashed"
    /\ pc = "predict" => Cardinality(Made(preds)) = Cardinality(KnownGames(SubSeq(games, 1, i - 1)))
    /\ Selected => Len(preds) = Cardinality(KnownGames(games))

\* C9 (as claimed): a game with a team missing from the rating store yields no
\* prediction and no error, every other game yields exactly one, so once the
\* games are gone through there are as many predictions as games with both
\* teams known.
C9_OnePredictionPerKnownGame ==
    /\ pc = "predict" =>
          \A k \in 1..Len(preds) : (preds[k].out = "pred") <=> (k \in KnownGames(games))
    /\ pc \in {"stake", "done", "crashed"} => Len(preds) = Cardinality(KnownGames(games))

\* C10 (as claimed): with no provider available predict gives an empty factor
\* list and a margin of the baseline plus the elite-venue bonus only, elite home
\* teams included.
C10_NoProviderNoFactor ==
    world = "none" =>
      \A k \in Made(preds) :
         LET p == preds[k]
             home == Get(p.home)
             away == Get(p.away)
             bonus == IF InEliteVenues(p.home) THEN EliteBonus(p.home) * TENTH ELSE 0
         IN  /\ p.factors = <<>>
             /\ p.h_margin = HPts(home, away) - APts(home, away) + bonus

\* C10 (amended): with no provider available the margin is the baseline plus the
\* elite-venue bonus only, and the factor list is empty except that v7 lists the
\* elite-venue bonus as its single factor when the home team is an elite venue.
C10_NoProviderBaselineOnly ==
    world = "none" =>
      \A k \in Made(preds) :
         LET p == preds[k]
             home == Get(p.home)
             away == Get(p.away)
             elite == InEliteVenues(p.home)
             bonus == IF elite THEN EliteBonus(p.home) * TENTH ELSE 0
         IN  /\ p.factors = IF ver = 7 /\ elite
                            THEN <<Factor("elite venue", <<>>, EliteBonus(p.home), "")>>
                            ELSE <<>>
             /\ p.h_margin = HPts(home, away) - APts(home, away) + bonus

\* C10 witness: with no provider, v7 holds a prediction at an elite venue with
\* the bonus as its only factor and one elsewhere with no factor
C10_Witness ==
    /\ world = "none"
    /\ ver = 7
    /\ \E k \in Made(preds) : InEliteVenues(preds[k].home) /\ Len(preds[k].factors) = 1
    /\ \E k \in Made(preds) : ~InEliteVenues(preds[k].home) /\ preds[k].factors = <<>>

\* what predict adds to the margin for playing at home with no provider:
\* CONFERENCE_HCA of the team's conference and its ELITE_VENUES bonus, in model units
HomeAdvantage(team) ==
    (HcaOf(Get(team).conf) + (IF InEliteVenues(team) THEN EliteBonus(team) ELSE 0)) * TENTH

\* preds holds the results of a matchup and of its swap
SwapMade == pc = "swap" /\ Len(preds) = 2

\* C11 (as claimed): predicting (home A, away B, spread m) and (home B, away A,
\* spread -m) recommends the same team and gives the same edge.
C11_SwapSymmetry ==
    SwapMade => (preds[1].bet_team = preds[2].bet_team /\ preds[1].edge = preds[2].edge)

\* C11 (amended): with no provider, the signed edges s1 = m + h_margin(A home)
\* and s2 = -m + h_margin(B home) of the two predictions sum to the two teams'
\* home advantages H (conference HCA plus elite-venue bonus, H > 0); the edges
\* are round(|s1|,1) and round(|H - s1|,1); the same team is recommended when
\* s1 < 0 (team B both times) or s1 > H (team A both times), and each
\* prediction recommends its own home team when 0 < s1 < H.
C11_SwapShiftsByHomeAdvantage ==
    (SwapMade /\ world = "none") =>
       LET p == preds[1]
           q == preds[2]
           s1 == p.mkt * TENTH + p.h_margin
           s2 == q.mkt * TENTH + q.h_margin
           H == HomeAdvantage(p.home) + HomeAdvantage(q.home)
       IN  /\ p.home = q.away /\ p.away = q.home /\ q.mkt = -p.mkt
           /\ H > 0
           /\ s1 + s2 = H
           /\ p.edge = Round1(Abs(s1))
           /\ q.edge = Round1(Abs(H - s1))
           /\ (s1 < 0) => (p.bet_team = p.away /\ q.bet_team = p.away)
           /\ (s1 > H) => (p.bet_team = p.home /\ q.bet_team = p.home)
           /\ (0 < s1 /\ s1 < H) => (p.bet_team = p.home /\ q.bet_team = q.home)

\* C11 witness: with no provider, a matchup and its swap each recommend their
\* own home team, with different edges
C11_Witness ==
    /\ SwapMade
    /\ world = "none"
    /\ preds[1].bet_team = preds[1].home
    /\ preds[2].bet_team = preds[2].home
    /\ preds[1].edge # preds[2].edge

\* the results of predict on the ingested games, in the games' order
InGameOrder ==
    [k \in 1..Len(games) |->
        IF ver = 7
        THEN PredictV7(world, games[k].home, games[k].away, games[k].spread,
                       games[k].game_hour_et, BANKROLL)
        ELSE PredictV6(world, games[k].home, games[k].away, games[k].spread)]

\* the games of G, the predictions in game order, that pass the selector's thresholds
QualifyingGames(G) ==
    { k \in 1..Len(G) :
        /\ G[k].out = "pred"
        /\ IF ver = 7 THEN QualifiesV7(G[k]) ELSE QualifiesV6(G[k]) }

\* game k's prediction comes before game l's: greater edge, or equal edge and
\* earlier in the ingested list
Before(G, k, l) ==
    \/ G[k].edge > G[l].edge
    \/ (G[k].edge = G[l].edge /\ k < l)

\* the game of Q with exactly n - 1 games of Q before it
NthQualifying(G, Q, n) ==
    CHOOSE k \in Q : Cardinality({ l \in Q : Before(G, l, k) }) = n - 1

\* C12: the final bet list is ordered by non-increasing edge, bets of equal
\* edge are in the order of their games in the ingested list, and the bets kept
\* are the first MAX_BETS qualifying predictions in that order (checked of the
\* bet list main ends with).
C12_BetsOrderedStable ==
    pc = "done" =>
       LET G == InGameOrder
           Q == QualifyingGames(G)
       IN  /\ \A j \in 1..Len(bets) : \A k \in (j + 1)..Len(bets) : bets[j].edge >= bets[k].edge
           /\ Len(bets) = Min2(MAX_BETS, Cardinality(Q))
           /\ \A n \in 1..Len(bets) : bets[n] = G[NthQualifying(G, Q, n)]

\* C12 witness: more than MAX_BETS predictions qualify, two of the bets kept
\* are of different games with equal edge, and the first prediction cut off
\* has the edge of the last bet kept
C12_Witness ==
    /\ pc = "done"
    /\ Len(bets) = MAX_BETS
    /\ \E j \in 1..(MAX_BETS - 1) : bets[j].edge = bets[j + 1].edge /\ bets[j] # bets[j + 1]
    /\ LET G == InGameOrder
           Q == QualifyingGames(G)
       IN  /\ Cardinality(Q) > MAX_BETS
           /\ G[NthQualifying(G, Q, MAX_BETS + 1)].edge = bets[MAX_BETS].edge
           /\ G[NthQualifying(G, Q, MAX_BETS + 1)] # bets[MAX_BETS]

====
